---- MODULE Spec2Model ----
(***************************************************************************)
(* Model of Backend/app.py: the per-document extraction pipeline           *)
(* (extract_cedula_from_filename, get_cedula_info, convert_pdf_to_images,  *)
(* process_pdf) and the batch endpoint process_clinical_history.           *)
(*                                                                         *)
(* Conventions.                                                            *)
(*   - A Python str is a sequence of pieces: a filename is the sequence of *)
(*     its characters, any other text is the one-piece sequence Str(s);    *)
(*     the empty string is << >>.                                          *)
(*   - A Python dict is the list of its [k, v] entries, in insertion order.*)
(*   - An optional value (None or v) is None == << >> or Some(v) == <<v>>. *)
(*   - A model reply is a sequence of tokens: whitespace, the two markdown *)
(*     fence markers, prose, and JSON documents.                           *)
(***************************************************************************)
EXTENDS Integers, Sequences, FiniteSets, TLC

VARIABLES
    request,        \* the upload: whether the 'files' key is present, and the files
    pc,             \* position of the handler
    idx,            \* enumerate(files, 1): index of the file being processed
    cedula,         \* process_pdf local: identity number derived from the filename
    cedula_info,    \* process_pdf local: result of get_cedula_info
    rendered,       \* history: what convert_from_bytes last returned
    images,         \* process_pdf local: the base64 page images
    response,       \* process_pdf local: the chat completion
    extracted_data, \* process_pdf local: the schema record
    resultados,     \* process_clinical_history local: Document Results
    errores,        \* process_clinical_history local: failure entries
    result,         \* the JSON response of the endpoint
    log,            \* history: the stages started, in order
    fname,          \* argument of a stand-alone extract_cedula_from_filename call
    found           \* its return value

vars == <<request, pc, idx, cedula, cedula_info, rendered, images, response,
          extracted_data, resultados, errores, result, log, fname, found>>

pipelineVars == <<request, idx, cedula, cedula_info, rendered, images, response,
                  extracted_data, resultados, errores, result, log>>

----------------------------------------------------------------------------
(* Bounds of the model *)

MaxJobs == 3        \* files per upload
MaxPages == 7       \* pages the renderer may return
MaxNameLen == 12    \* characters of a filename given to the stand-alone search

(* Program constants *)

CedulaLen == 10     \* \d{10}
PageCap == 5        \* min(len(images), 5)
StatusOk == 200     \* response.status_code != 200

----------------------------------------------------------------------------
(* Values *)

None == << >>
Some(v) == <<v>>
Str(s) == <<s>>

Min(a, b) == IF a <= b THEN a ELSE b

Digits == {"0", "1", "2", "3", "4", "5", "6", "7", "8", "9"}
IsDigit(c) == c \in Digits

----------------------------------------------------------------------------
(* extract_cedula_from_filename: re.search(r'(\d{10})', filename).         *)
(* re.search tries each start position from the left and returns the first *)
(* position where ten digit characters follow one another.                 *)

RECURSIVE SearchFrom(_, _)
SearchFrom(s, i) ==
    IF i + CedulaLen - 1 > Len(s) THEN None
    ELSE IF \A k \in i..(i + CedulaLen - 1) : IsDigit(s[k])
         THEN Some(SubSeq(s, i, i + CedulaLen - 1))
         ELSE SearchFrom(s, i + 1)

(* Mutant: \b\d{10}\b -like matching, a run delimited on both sides. *)
RECURSIVE SearchDelimitedFrom(_, _)
SearchDelimitedFrom(s, i) ==
    IF i + CedulaLen - 1 > Len(s) THEN None
    ELSE IF /\ \A k \in i..(i + CedulaLen - 1) : IsDigit(s[k])
            /\ (i = 1 \/ ~IsDigit(s[i - 1]))
            /\ (i + CedulaLen > Len(s) \/ ~IsDigit(s[i + CedulaLen]))
         THEN Some(SubSeq(s, i, i + CedulaLen - 1))
         ELSE SearchDelimitedFrom(s, i + 1)

extract_cedula_delimited(filename) == SearchDelimitedFrom(filename, 1)

extract_cedula_from_filename(filename) == SearchFrom(filename, 1)

----------------------------------------------------------------------------
(* Python dicts, as insertion-ordered lists of [k, v] entries *)

Keys(d) == {d[i].k : i \in 1..Len(d)}

HasKey(d, key) == key \in Keys(d)

(* d.get(key, default) *)
Get(d, key, default) ==
    IF HasKey(d, key)
    THEN d[CHOOSE i \in 1..Len(d) : d[i].k = key].v
    ELSE default

(* d[key] = val: an existing key keeps its place, a new one goes last *)
Put(d, key, val) ==
    IF HasKey(d, key)
    THEN [i \in 1..Len(d) |-> IF d[i].k = key THEN [k |-> key, v |-> val] ELSE d[i]]
    ELSE Append(d, [k |-> key, v |-> val])

(* {**a, **b}: the entries of a, then those of b, later keys winning *)
RECURSIVE Merge(_, _)
Merge(a, b) ==
    IF b = << >> THEN a
    ELSE Merge(Put(a, Head(b).k, Head(b).v), Tail(b))

(* bool(text): the empty string is falsy *)
Truthy(text) == text # << >>

----------------------------------------------------------------------------
(* get_cedula_info (lines 44-78).  The outcome of requests.post is          *)
(*   [t |-> "timeout" | "network" | "other"]  an exception of that class, or *)
(*   [t |-> "http", status, jk, truthy, obj]  a reply whose body is not JSON *)
(*       (jk = "nonjson") or is a JSON value of kind jk with truth value     *)
(*       truthy, obj holding its entries when it is an object.               *)

get_cedula_info(outcome) ==
    IF outcome.t = "timeout" THEN None                    \* line 67
    ELSE IF outcome.t = "network" THEN None               \* line 70
    ELSE IF outcome.t = "other" THEN None                 \* line 76
    ELSE IF outcome.status # StatusOk THEN None           \* line 54
    ELSE IF outcome.jk = "nonjson" THEN None              \* line 58 raises, line 73
    ELSE IF ~outcome.truthy THEN None                     \* line 61, not data
    ELSE IF outcome.jk # "object" THEN None               \* data.get raises, line 76
    ELSE IF ~Truthy(Get(outcome.obj, "nombres", None)) THEN None   \* line 61
    ELSE Some(outcome.obj)                                \* line 65

----------------------------------------------------------------------------
(* convert_pdf_to_images (lines 80-111).  The renderer either raises        *)
(* (None) or returns the pages in page order, Some(<<1, 2, ..., n>>).       *)

(* images[i].save(PNG) and base64.b64encode *)
EncodePage(page) == [png_b64 |-> page]

MaxPagesUncapped(n) == n

max_pages(n) == Min(n, PageCap)                           \* line 94

(* [raised |-> TRUE] when the function raises, else the list it returns *)
convert_pdf_to_images(renderOutcome) ==
    IF renderOutcome = None
    THEN [raised |-> TRUE, value |-> << >>]               \* line 86 raises, line 111
    ELSE LET pages == renderOutcome[1]
             base64_images == [i \in 1..max_pages(Len(pages)) |-> EncodePage(pages[i])]
         IN  IF base64_images = << >>
             THEN [raised |-> TRUE, value |-> << >>]      \* line 105
             ELSE [raised |-> FALSE, value |-> base64_images]

----------------------------------------------------------------------------
(* The extraction schema and its defaults (lines 214-225) *)

FieldNames == <<"aptitudMedica", "diagnostico1", "cie10_diagnostico1",
                "observaciones1", "diagnostico2", "cie10_diagnostico2",
                "observaciones2", "hallazgoMetabolico", "hallazgoOsteomuscular",
                "otrosAntecedentes">>

Fields == {FieldNames[i] : i \in 1..Len(FieldNames)}

Sentinel == Str("No especificado")

DefaultData == [i \in 1..Len(FieldNames) |-> [k |-> FieldNames[i], v |-> Sentinel]]

----------------------------------------------------------------------------
(* The model reply and its parsing (lines 227-243).                         *)
(* A reply text is a sequence of tokens [tok, val]:                         *)
(*   "ws" whitespace, "fence_json" the marker ```json, "fence" the marker   *)
(*   ```, "prose" text that is no JSON, "json" the text of the JSON value   *)
(*   val.  A JSON value is [kind, items]; the items of an object are its    *)
(*   members, the items of a list its elements, the items of a string its   *)
(*   characters.  An item is [ek, key, val]: ek = "pair" for an object      *)
(*   member and for a list element that is itself a two-element sequence    *)
(*   <<key, val>>, ek = "other" for anything else.                          *)

JNull == [kind |-> "null", items |-> << >>]

Tok(t) == [tok |-> t, val |-> JNull]
Json(v) == [tok |-> "json", val |-> v]

(* str.strip() *)
RECURSIVE LStrip(_)
LStrip(ts) ==
    IF ts # << >> /\ Head(ts).tok = "ws" THEN LStrip(Tail(ts)) ELSE ts

RECURSIVE RStrip(_)
RStrip(ts) ==
    IF ts # << >> /\ ts[Len(ts)].tok = "ws"
    THEN RStrip(SubSeq(ts, 1, Len(ts) - 1))
    ELSE ts

Strip(ts) == RStrip(LStrip(ts))

(* str.replace(marker, '') *)
Remove(ts, marker) == SelectSeq(ts, LAMBDA t : t.tok # marker)

(* lines 233-234 *)
CleanMarkdown(respuesta) ==
    Strip(Remove(Remove(Strip(respuesta), "fence_json"), "fence"))

(* json.loads: one JSON value, nothing before or after it *)
json_loads(json_str) ==
    IF Len(json_str) = 1 /\ json_str[1].tok = "json"
    THEN [raised |-> FALSE, value |-> json_str[1].val]
    ELSE [raised |-> TRUE, value |-> JNull]

(* dict.update(iterable): the elements are taken one by one, each must be a *)
(* sequence of length two; the first that is not raises, the ones before it *)
(* stay applied.                                                            *)
RECURSIVE UpdateItems(_, _)
UpdateItems(d, items) ==
    IF items = << >> THEN [raised |-> FALSE, value |-> d]
    ELSE IF Head(items).ek = "pair"
         THEN UpdateItems(Put(d, Head(items).key, Head(items).val), Tail(items))
         ELSE [raised |-> TRUE, value |-> d]

(* extracted_data.update(parsed), line 238 *)
dict_update(d, parsed) ==
    IF parsed.kind \in {"number", "null"}
    THEN [raised |-> TRUE, value |-> d]                   \* TypeError: not iterable
    ELSE UpdateItems(d, parsed.items)

(* Lines 213-243 on a chat completion [choices, has_content, content].      *)
(* raised: whether an exception leaves the block.  The try block's own      *)
(* exceptions are caught at line 241; the handler's line 243 reads          *)
(* respuesta, which is unbound when line 229 itself raised.                 *)
Normalize(resp) ==
    IF resp.choices = 0
    THEN [raised |-> TRUE, value |-> DefaultData]         \* IndexError, then NameError
    ELSE IF ~resp.has_content
    THEN [raised |-> FALSE, value |-> DefaultData]        \* None[:100], TypeError
    ELSE LET parsed == json_loads(CleanMarkdown(resp.content))
         IN  IF parsed.raised
             THEN [raised |-> FALSE, value |-> DefaultData]
             ELSE [raised |-> FALSE,
                   value |-> dict_update(DefaultData, parsed.value).value]

(* Lines 245-256: the Document Result *)
Assemble(filename, ced, info, data) ==
    LET nombre == IF info # None THEN Get(info[1], "nombres", Str("Sin datos"))
                  ELSE Str("Sin datos")
        apellido == IF info # None THEN Get(info[1], "apellidos", Str("Sin datos"))
                    ELSE Str("Sin datos")
        head == << [k |-> "fileName", v |-> filename],
                   [k |-> "cedula", v |-> IF ced # None THEN ced[1] ELSE Str("No detectada")],
                   [k |-> "nombre", v |-> nombre],
                   [k |-> "apellido", v |-> apellido] >>
    IN  Merge(head, data)

----------------------------------------------------------------------------
(* Inputs *)

NameCed == <<"h", "c", "_", "0", "9", "1", "2", "3", "4", "5", "6", "7", "8", ".", "p", "d", "f">>
NamePlain == <<"s", "c", "a", "n", ".", "p", "d", "f">>
NameShort == <<"1", "2", "3", "4", "5", ".", "p", "d", "f">>
NameLong == <<"2", "0", "2", "4", "0", "1", "1", "5", "1", "2", "3", ".", "p", "d", "f">>

File(name, isEmpty) == [filename |-> name, empty |-> isEmpty]

FilesOf(names) == {File(n, e) : n \in names, e \in BOOLEAN}

Batches(files, n) == UNION {[1..m -> files] : m \in 1..n}

(* outcomes of the identity registry *)
Thrown(class) ==
    [t |-> class, status |-> 0, jk |-> "nonjson", truthy |-> FALSE, obj |-> << >>]
Http(st, kind, tr, o) ==
    [t |-> "http", status |-> st, jk |-> kind, truthy |-> tr, obj |-> o]

Person == << [k |-> "nombres", v |-> Str("JUAN")], [k |-> "apellidos", v |-> Str("PEREZ")] >>
PersonNoSurname == << [k |-> "nombres", v |-> Str("ANA")] >>
PersonNoName == << [k |-> "nombres", v |-> << >>], [k |-> "apellidos", v |-> Str("PEREZ")] >>
NotFound == << [k |-> "error", v |-> Str("sin registro")] >>

FewLookups == {Thrown("timeout"), Http(200, "object", TRUE, Person)}

AllLookups ==
    {Thrown("timeout"), Thrown("network"), Thrown("other"),
     Http(500, "nonjson", FALSE, << >>), Http(404, "object", TRUE, Person),
     Http(201, "object", TRUE, Person), Http(200, "nonjson", FALSE, << >>),
     Http(200, "null", FALSE, << >>), Http(200, "object", FALSE, << >>),
     Http(200, "list", TRUE, << >>), Http(200, "string", TRUE, << >>),
     Http(200, "number", TRUE, << >>), Http(200, "object", TRUE, NotFound),
     Http(200, "object", TRUE, PersonNoName),
     Http(200, "object", TRUE, PersonNoSurname), Http(200, "object", TRUE, Person)}

(* outcomes of the renderer *)
Pages(n) == [i \in 1..n |-> i]

FewRenders == {None, Some(Pages(2))}

AllRenders == {None} \cup {Some(Pages(n)) : n \in 0..MaxPages}

(* JSON documents a reply may hold *)
Pair(key, val) == [ek |-> "pair", key |-> key, val |-> Str(val)]
Other == [ek |-> "other", key |-> "", val |-> << >>]
JObject(items) == [kind |-> "object", items |-> items]
JList(items) == [kind |-> "list", items |-> items]

ObjApto == JObject(<<Pair("aptitudMedica", "APTO")>>)
ObjTwo == JObject(<<Pair("diagnostico1", "LUMBALGIA"), Pair("cie10_diagnostico1", "M545")>>)
ObjExtra == JObject(<<Pair("aptitudMedica", "APTO"), Pair("confianza", "alta")>>)
ObjIdentity == JObject(<<Pair("aptitudMedica", "NO APTO"), Pair("fileName", "otro.pdf"),
                         Pair("cedula", "1700000000"), Pair("nombre", "X")>>)
ObjEmpty == JObject(<< >>)
ListPairs == JList(<<Pair("aptitudMedica", "APTO")>>)
ListPairThenOther == JList(<<Pair("diagnostico1", "LUMBALGIA"), Other>>)
ListOther == JList(<<Other, Other>>)
ListEmpty == JList(<< >>)
StrValue == [kind |-> "string", items |-> <<Other, Other>>]
StrEmpty == [kind |-> "string", items |-> << >>]
Number == [kind |-> "number", items |-> << >>]

Documents == {ObjApto, ObjTwo, ObjExtra, ObjIdentity, ObjEmpty, ListPairs,
              ListPairThenOther, ListOther, ListEmpty, StrValue, StrEmpty,
              Number, JNull}

Fenced(d) == <<Tok("fence_json"), Tok("ws"), Json(d), Tok("ws"), Tok("fence")>>

Texts(docs) ==
    UNION {{ <<Json(d)>>, <<Tok("ws"), Json(d), Tok("ws")>>, Fenced(d),
             <<Tok("fence"), Json(d), Tok("fence")>>, <<Tok("prose"), Json(d)>>,
             <<Json(d), Tok("ws"), Json(d)>> } : d \in docs}
    \cup {<< >>, <<Tok("ws")>>, <<Tok("prose")>>, <<Tok("fence_json"), Tok("fence")>>}

(* outcomes of the chat completion call *)
CallRaises == [raises |-> TRUE, choices |-> 0, has_content |-> FALSE, content |-> << >>]
NoChoices == [raises |-> FALSE, choices |-> 0, has_content |-> FALSE, content |-> << >>]
NoContent == [raises |-> FALSE, choices |-> 1, has_content |-> FALSE, content |-> << >>]
Reply(text) == [raises |-> FALSE, choices |-> 1, has_content |-> TRUE, content |-> text]

FewResponses == {CallRaises, NoChoices, Reply(Fenced(ObjApto))}

AllResponses == {CallRaises, NoChoices, NoContent} \cup {Reply(t) : t \in Texts(Documents)}

----------------------------------------------------------------------------
(* The handler.  pc is the statement about to run. *)

Event(stage, ok) == [job |-> idx, stage |-> stage, ok |-> ok]

CurrentFile == request.files[idx]

ClearLocals ==
    /\ cedula' = None
    /\ cedula_info' = None
    /\ images' = << >>
    /\ response' = NoContent
    /\ extracted_data' = << >>

(* the for loop's next iteration, or the statement after the loop *)
NextFile ==
    /\ idx' = idx + 1
    /\ pc' = IF idx < Len(request.files) THEN "read" ELSE "respond"

(* Mutant: a failure ends the loop. *)
RecordFailureAndStop(msg, lg) ==
    /\ errores' = Append(errores, [job |-> idx, archivo |-> CurrentFile.filename,
                                   error |-> msg])
    /\ log' = Append(lg, Event("recorded", FALSE))
    /\ idx' = idx + 1
    /\ pc' = "respond"
    /\ ClearLocals
    /\ UNCHANGED <<request, resultados, result>>

(* lines 316-322: the per-file except clause; lg is the log so far *)
RecordFailure(msg, lg) ==
    /\ errores' = Append(errores, [job |-> idx, archivo |-> CurrentFile.filename,
                                   error |-> msg])
    /\ log' = Append(lg, Event("recorded", FALSE))
    /\ NextFile
    /\ ClearLocals
    /\ UNCHANGED <<request, resultados, result>>

Rejection(msg) ==
    [status |-> 400, success |-> FALSE, procesados |-> 0, errores |-> 1,
     data |-> << >>, errores_detalle |-> None, mensaje |-> Some(Str(msg))]

(* lines 266-297 *)
Validate ==
    /\ pc = "validate"
    /\ IF ~request.has_files
       THEN /\ result' = Some(Rejection("No se recibieron archivos"))
            /\ pc' = "done"
       ELSE IF Len(request.files) = 0
       THEN /\ result' = Some(Rejection("Lista de archivos vacia"))
            /\ pc' = "done"
       ELSE /\ result' = result
            /\ pc' = "read"
    /\ UNCHANGED <<request, idx, cedula, cedula_info, rendered, images, response,
                   extracted_data, resultados, errores, log, fname, found>>

(* lines 300-308 *)
ReadFile ==
    /\ pc = "read"
    /\ IF CurrentFile.empty
       THEN RecordFailure(Str("Archivo vacio"), Append(log, Event("read", FALSE)))
       ELSE /\ log' = Append(log, Event("read", TRUE))
            /\ pc' = "derive"
            /\ UNCHANGED <<request, idx, cedula, cedula_info, images, response,
                           extracted_data, resultados, errores, result>>
    /\ UNCHANGED <<rendered, fname, found>>

(* lines 117-120, 130 *)
DeriveCedula ==
    /\ pc = "derive"
    /\ cedula' = extract_cedula_from_filename(CurrentFile.filename)
    /\ log' = Append(log, Event("derive", cedula' # None))
    /\ pc' = IF cedula' # None THEN "lookup" ELSE "rasterize"
    /\ UNCHANGED <<request, idx, cedula_info, rendered, images, response,
                   extracted_data, resultados, errores, result, fname, found>>

(* lines 122-129 *)
Lookup(outcomes) ==
    /\ pc = "lookup"
    /\ \E o \in outcomes :
          /\ cedula_info' = get_cedula_info(o)
          /\ log' = Append(log, Event("lookup", cedula_info' # None))
    /\ pc' = "rasterize"
    /\ UNCHANGED <<request, idx, cedula, rendered, images, response,
                   extracted_data, resultados, errores, result, fname, found>>

(* Mutant: the failure of convert_pdf_to_images is swallowed. *)
RasterizeSwallowing(renders) ==
    /\ pc = "rasterize"
    /\ \E r \in renders :
          LET c == convert_pdf_to_images(r)
          IN  /\ rendered' = r
              /\ images' = c.value
              /\ log' = Append(log, Event("rasterize", ~c.raised))
              /\ pc' = "invoke"
              /\ UNCHANGED <<request, idx, cedula, cedula_info, response,
                             extracted_data, resultados, errores, result>>
    /\ UNCHANGED <<fname, found>>

(* lines 133-138 *)
Rasterize(renders) ==
    /\ pc = "rasterize"
    /\ \E r \in renders :
          LET c == convert_pdf_to_images(r)
          IN  /\ rendered' = r
              /\ IF c.raised
                 THEN RecordFailure(Str("No se pudo convertir el PDF a imagenes"),
                                    Append(log, Event("rasterize", FALSE)))
                 ELSE
                   /\ images' = c.value
                   /\ log' = Append(log, Event("rasterize", TRUE))
                   /\ pc' = "invoke"
                   /\ UNCHANGED <<request, idx, cedula, cedula_info, response,
                                  extracted_data, resultados, errores, result>>
    /\ UNCHANGED <<fname, found>>

(* lines 140-211: the prompt, get_openai_client and the completion call *)
InvokeModel(responses) ==
    /\ pc = "invoke"
    /\ \E m \in responses :
          IF m.raises
          THEN RecordFailure(Str("error llamando al modelo"),
                             Append(log, Event("invoke", FALSE)))
          ELSE /\ response' = m
               /\ log' = Append(log, Event("invoke", TRUE))
               /\ pc' = "normalize"
               /\ UNCHANGED <<request, idx, cedula, cedula_info, images,
                              extracted_data, resultados, errores, result>>
    /\ UNCHANGED <<rendered, fname, found>>

(* lines 213-243 *)
NormalizeReply ==
    /\ pc = "normalize"
    /\ LET n == Normalize(response)
       IN  IF n.raised
           THEN RecordFailure(Str("cannot access local variable 'respuesta'"),
                              Append(log, Event("normalize", FALSE)))
           ELSE /\ extracted_data' = n.value
                /\ log' = Append(log, Event("normalize", TRUE))
                /\ pc' = "assemble"
                /\ UNCHANGED <<request, idx, cedula, cedula_info, images,
                               response, resultados, errores, result>>
    /\ UNCHANGED <<rendered, fname, found>>

(* Mutant: resultados.insert(0, datos). *)
AddResultFirst(res, datos) == <<datos>> \o res

(* line 312: resultados.append(datos) *)
AddResult(res, datos) == Append(res, datos)

(* lines 245-256 and 311-314 *)
AssembleResult ==
    /\ pc = "assemble"
    /\ resultados' = AddResult(resultados,
           [job |-> idx,
            doc |-> Assemble(CurrentFile.filename, cedula, cedula_info, extracted_data)])
    /\ log' = Append(log, Event("recorded", TRUE))
    /\ NextFile
    /\ ClearLocals
    /\ UNCHANGED <<request, rendered, errores, result, fname, found>>

(* Mutant: success means no file failed. *)
SuccessIfNoErrors(res, errs) == Len(errs) = 0

(* line 329 *)
Success(res, errs) == Len(res) > 0

BatchResult(res, errs) ==
    [status |-> 200,
     success |-> Success(res, errs),
     procesados |-> Len(res),
     errores |-> Len(errs),
     data |-> [i \in 1..Len(res) |-> res[i].doc],
     errores_detalle |->
         IF Len(errs) > 0
         THEN Some([i \in 1..Len(errs) |->
                       [archivo |-> errs[i].archivo, error |-> errs[i].error]])
         ELSE None,
     mensaje |-> None]

(* lines 324-334 *)
Respond ==
    /\ pc = "respond"
    /\ result' = Some(BatchResult(resultados, errores))
    /\ pc' = "done"
    /\ UNCHANGED <<request, idx, cedula, cedula_info, rendered, images, response,
                   extracted_data, resultados, errores, log, fname, found>>

(* a stand-alone call of extract_cedula_from_filename *)
Search ==
    /\ pc = "search"
    /\ found' = extract_cedula_from_filename(fname)
    /\ pc' = "searched"
    /\ UNCHANGED <<pipelineVars, fname>>

----------------------------------------------------------------------------
(* Specifications *)

InitLocals ==
    /\ idx = 1
    /\ cedula = None
    /\ cedula_info = None
    /\ rendered = None
    /\ images = << >>
    /\ response = NoContent
    /\ extracted_data = << >>
    /\ resultados = << >>
    /\ errores = << >>
    /\ result = None
    /\ log = << >>

(* a request with up to MaxJobs files, or without the 'files' key *)
Init ==
    /\ request \in {[has_files |-> FALSE, files |-> << >>]} \cup
           {[has_files |-> TRUE, files |-> b] :
               b \in Batches(FilesOf({NameCed, NamePlain}), MaxJobs)}
    /\ pc = "validate"
    /\ InitLocals
    /\ fname = << >>
    /\ found = None

Next ==
    \/ Validate
    \/ ReadFile
    \/ DeriveCedula
    \/ Lookup(FewLookups)
    \/ Rasterize(FewRenders)
    \/ InvokeModel(FewResponses)
    \/ NormalizeReply
    \/ AssembleResult
    \/ Respond

Spec == Init /\ [][Next]_vars

(* a request with one file, every outcome of every collaborator *)
InitJob ==
    /\ request \in {[has_files |-> TRUE, files |-> <<f>>] :
                       f \in FilesOf({NameCed, NamePlain, NameShort, NameLong})}
    /\ pc = "validate"
    /\ InitLocals
    /\ fname = << >>
    /\ found = None

NextJob ==
    \/ Validate
    \/ ReadFile
    \/ DeriveCedula
    \/ Lookup(AllLookups)
    \/ Rasterize(AllRenders)
    \/ InvokeModel(AllResponses)
    \/ NormalizeReply
    \/ AssembleResult
    \/ Respond

SpecJob == InitJob /\ [][NextJob]_vars

(* filenames: every pattern of digits and letters up to MaxNameLen, the     *)
(* digit at position i being i mod 10                                       *)
DigitAt(i) == <<"0", "1", "2", "3", "4", "5", "6", "7", "8", "9">>[(i % 10) + 1]

Names ==
    UNION {{[i \in 1..n |-> IF i \in D THEN DigitAt(i) ELSE "x"] : D \in SUBSET (1..n)} :
              n \in 0..MaxNameLen}

InitCedula ==
    /\ request = [has_files |-> FALSE, files |-> << >>]
    /\ pc = "search"
    /\ InitLocals
    /\ fname \in Names
    /\ found = None

NextCedula == Search

SpecCedula == InitCedula /\ [][NextCedula]_vars

----------------------------------------------------------------------------
(* Vocabulary of the properties *)

Done == pc = "done" /\ result # None

(* the endpoint ran the loop over the files (lines 294-334) *)
Processed == Done /\ result[1].status = 200

NFiles == Len(request.files)

Logged(j, stage) == {p \in 1..Len(log) : log[p].job = j /\ log[p].stage = stage}

LoggedAs(j, stage, ok) == \E p \in Logged(j, stage) : log[p].ok = ok

Succeeded(j) == LoggedAs(j, "recorded", TRUE)
Failed(j) == LoggedAs(j, "recorded", FALSE)

ResultsOf(j) == {i \in 1..Len(resultados) : resultados[i].job = j}
FailuresOf(j) == {i \in 1..Len(errores) : errores[i].job = j}

----------------------------------------------------------------------------
(* C1: when the endpoint has processed a batch, every file was attempted     *)
(* exactly once and ended as exactly one entry, a Document Result in data or *)
(* an {archivo, error} entry carrying its filename; procesados and errores   *)
(* count the files that succeeded and failed and add up to the number of     *)
(* files; when every file fails rasterization, data is empty and errores is  *)
(* the number of files.                                                      *)
C1_EveryJobOneEntry ==
    Processed =>
        LET r == result[1]
        IN  /\ \A j \in 1..NFiles :
                  /\ Cardinality(Logged(j, "read")) = 1
                  /\ Cardinality(ResultsOf(j)) + Cardinality(FailuresOf(j)) = 1
                  /\ Succeeded(j) <=> ResultsOf(j) # {}
                  /\ Failed(j) <=> FailuresOf(j) # {}
                  /\ \A i \in FailuresOf(j) :
                        /\ errores[i].archivo = request.files[j].filename
                        /\ r.errores_detalle # None
                        /\ r.errores_detalle[1][i].archivo = request.files[j].filename
            /\ r.procesados = Cardinality({j \in 1..NFiles : Succeeded(j)})
            /\ r.errores = Cardinality({j \in 1..NFiles : Failed(j)})
            /\ r.procesados + r.errores = NFiles
            /\ Len(r.data) = r.procesados
            /\ (r.errores_detalle # None => Len(r.errores_detalle[1]) = r.errores)
            /\ (r.errores_detalle = None => r.errores = 0)
            /\ ((\A j \in 1..NFiles : LoggedAs(j, "rasterize", FALSE))
                   => r.data = << >> /\ r.errores = NFiles /\ ~r.success)

(* three files, the second fails rasterization, the others succeed *)
C1_Witness ==
    /\ Processed
    /\ NFiles = 3
    /\ LoggedAs(2, "rasterize", FALSE)
    /\ Succeeded(1) /\ Succeeded(3)
    /\ result[1].procesados = 2
    /\ result[1].errores = 1
    /\ result[1].errores_detalle[1][1].archivo = request.files[2].filename

----------------------------------------------------------------------------
(* C4: the Document Results are in the order of their files: at every point  *)
(* the results recorded so far belong to strictly increasing file indexes,   *)
(* and in the response data holds exactly the results of the files that      *)
(* succeeded, in that order, failed files taking no slot.                    *)
C4_ResultsInInputOrder ==
    /\ \A i, k \in 1..Len(resultados) :
          i < k => resultados[i].job < resultados[k].job
    /\ Processed =>
          LET data == result[1].data
              ok == {j \in 1..NFiles : Succeeded(j)}
          IN  /\ Len(data) = Cardinality(ok)
              /\ \A i \in 1..Len(data) :
                    /\ data[i] = resultados[i].doc
                    /\ resultados[i].job \in ok
                    /\ Cardinality({j \in ok : j < resultados[i].job}) = i - 1

(* the first of three files fails, the other two succeed *)
C4_Witness ==
    /\ Processed
    /\ NFiles = 3
    /\ Failed(1) /\ Succeeded(2) /\ Succeeded(3)
    /\ Len(result[1].data) = 2
    /\ request.files[2].filename # request.files[3].filename

----------------------------------------------------------------------------
(* C7: in every response, success is true exactly when data is not empty,    *)
(* which is exactly when some file produced a Document Result.               *)
C7_SuccessIffData ==
    Done =>
        LET r == result[1]
        IN  /\ r.success <=> Len(r.data) > 0
            /\ r.success <=> (\E j \in 1..NFiles : Succeeded(j))
            /\ ((\A j \in 1..NFiles : ~Succeeded(j)) => ~r.success /\ r.data = << >>)

(* a batch in which one file succeeded and one failed *)
C7_Witness ==
    /\ Processed
    /\ result[1].success
    /\ result[1].errores >= 1
    /\ result[1].procesados >= 1

(* a batch in which every file failed *)
C7_WitnessAllFailed ==
    /\ Processed
    /\ NFiles >= 2
    /\ ~result[1].success
    /\ result[1].errores = NFiles

----------------------------------------------------------------------------
(* C9: the stages of a file are logged in the order read, derive, lookup,    *)
(* rasterize, invoke, normalize, recorded; no stage of a file is logged      *)
(* before the previous file's result or failure is recorded; a file whose    *)
(* rasterization fails has no model invocation, a file whose invocation      *)
(* fails has no normalization; the lookup happens only for a filename with   *)
(* ten consecutive digits.                                                   *)
StageRank(stage) ==
    CASE stage = "read" -> 1
      [] stage = "derive" -> 2
      [] stage = "lookup" -> 3
      [] stage = "rasterize" -> 4
      [] stage = "invoke" -> 5
      [] stage = "normalize" -> 6
      [] stage = "recorded" -> 7

TenDigitsAt(s, i) == i + 9 <= Len(s) /\ \A k \in i..(i + 9) : IsDigit(s[k])

C9_StagesInOrder ==
    /\ \A p \in 1..(Len(log) - 1) :
          \/ /\ log[p + 1].job = log[p].job
             /\ StageRank(log[p].stage) < StageRank(log[p + 1].stage)
             /\ log[p].stage # "recorded"
          \/ /\ log[p + 1].job = log[p].job + 1
             /\ log[p].stage = "recorded"
             /\ log[p + 1].stage = "read"
    /\ (log # << >> => log[1].job = 1 /\ log[1].stage = "read")
    /\ \A j \in 1..NFiles :
          /\ (LoggedAs(j, "rasterize", FALSE) => Logged(j, "invoke") = {})
          /\ (LoggedAs(j, "invoke", FALSE) => Logged(j, "normalize") = {})
          /\ (Logged(j, "invoke") # {} => LoggedAs(j, "rasterize", TRUE))
          /\ (Logged(j, "normalize") # {} => LoggedAs(j, "invoke", TRUE))
          /\ (Logged(j, "lookup") # {} =>
                 \E i \in 1..Len(request.files[j].filename) :
                     TenDigitsAt(request.files[j].filename, i))

(* file 1 fails rasterization, file 2 has no identity number and fails at    *)
(* the model, file 3 is looked up and goes through every stage               *)
C9_Witness ==
    /\ Processed
    /\ NFiles = 3
    /\ LoggedAs(1, "rasterize", FALSE)
    /\ Logged(2, "lookup") = {} /\ LoggedAs(2, "invoke", FALSE)
    /\ Logged(3, "lookup") # {} /\ LoggedAs(3, "normalize", TRUE) /\ Succeeded(3)

----------------------------------------------------------------------------
(* C8: when rasterization has succeeded on a PDF rendered to n pages, images *)
(* holds exactly min(n, 5) page images, the encodings of pages 1..min(n, 5)  *)
(* in page order, and n >= 1; when the renderer raised or returned no page,  *)
(* the file has failed and no image list was returned.                       *)
RasterJustRan(ok) ==
    \/ /\ Len(log) >= 1
       /\ log[Len(log)].stage = "rasterize"
       /\ log[Len(log)].ok = ok
    \/ /\ Len(log) >= 2
       /\ log[Len(log)].stage = "recorded"
       /\ log[Len(log) - 1].stage = "rasterize"
       /\ log[Len(log) - 1].ok = ok

C8_FirstFivePagesInOrder ==
    /\ (pc \in {"invoke", "normalize", "assemble"} \/ RasterJustRan(TRUE)) =>
          /\ rendered # None
          /\ LET n == Len(rendered[1])
             IN  /\ n >= 1
                 /\ Len(images) = (IF n <= 5 THEN n ELSE 5)
                 /\ \A i \in 1..Len(images) :
                       /\ images[i] = EncodePage(rendered[1][i])
                       /\ images[i].png_b64 = i
    /\ RasterJustRan(FALSE) =>
          /\ rendered = None \/ Len(rendered[1]) = 0
          /\ images = << >>
          /\ errores # << >>
          /\ errores[Len(errores)].job = log[Len(log)].job
          /\ ~log[Len(log)].ok

(* a 7-page PDF gave the first 5 pages *)
C8_Witness ==
    /\ pc = "invoke"
    /\ rendered # None
    /\ Len(rendered[1]) = 7
    /\ Len(images) = 5
    /\ images[5].png_b64 = 5

----------------------------------------------------------------------------
(* whether the reply, once cleaned, is the text of one JSON object *)
ReplyIsObject(resp) ==
    /\ resp.has_content
    /\ LET t == CleanMarkdown(resp.content)
       IN  Len(t) = 1 /\ t[1].tok = "json" /\ t[1].val.kind = "object"

ParsedObject(resp) == CleanMarkdown(resp.content)[1].val.items

Member(items, key) == \E i \in 1..Len(items) : items[i].key = key

MemberValue(items, key) == items[CHOOSE i \in 1..Len(items) : items[i].key = key].val

(* the Document Result the step from pc = "assemble" records *)
NewDoc == resultados'[Len(resultados')].doc

(* C2: whenever the reply is not the text of a JSON object the record is the *)
(* all-sentinel default, and no file of a processed batch failed in          *)
(* normalization.                                                            *)
C2_NonObjectGivesDefaults ==
    /\ (pc = "assemble" /\ ~ReplyIsObject(response)) => extracted_data = DefaultData
    /\ (Processed => \A p \in 1..Len(log) : log[p].stage = "normalize" => log[p].ok)

(* C3: the normalized record has exactly the ten schema fields; for a reply  *)
(* that is a JSON object each field holds the object's value for that key,   *)
(* or the sentinel when the object has no such key.                          *)
C3_ExactlyTenFields ==
    pc = "assemble" =>
        /\ Len(extracted_data) = 10
        /\ Keys(extracted_data) = Fields
        /\ ReplyIsObject(response) =>
              \A f \in Fields :
                  Get(extracted_data, f, None) =
                      IF Member(ParsedObject(response), f)
                      THEN MemberValue(ParsedObject(response), f)
                      ELSE Sentinel

(* C5: the lookup step never records a failure and always goes on to         *)
(* rasterization, and a file whose identity is unresolved gets the           *)
(* placeholder names in its Document Result.                                 *)
C5_LookupNeverFatal ==
    [][/\ (pc = "lookup" =>
              pc' = "rasterize" /\ errores' = errores /\ resultados' = resultados)
       /\ (pc = "assemble" /\ cedula_info = None =>
              /\ Get(NewDoc, "nombre", None) = Str("Sin datos")
              /\ Get(NewDoc, "apellido", None) = Str("Sin datos"))]_vars

(* The part of C5 that does not involve the reply: every lookup outcome      *)
(* leaves the failure list alone and goes on to rasterization, and only an   *)
(* object with a non-empty nombres is kept.                                  *)
LookupStepContinues ==
    [][pc = "lookup" =>
          /\ pc' = "rasterize"
          /\ errores' = errores
          /\ resultados' = resultados
          /\ (cedula_info' # None => Truthy(Get(cedula_info'[1], "nombres", None)))]_vars

(* C10: the identity part of a Document Result comes from the file and the   *)
(* lookup alone: fileName is the file's name, cedula the derived number or   *)
(* "No detectada", nombre and apellido the looked-up names or "Sin datos".   *)
C10_IdentityFromJobOnly ==
    [][pc = "assemble" =>
          /\ Get(NewDoc, "fileName", None) = CurrentFile.filename
          /\ Get(NewDoc, "cedula", None) =
                 (IF cedula # None THEN cedula[1] ELSE Str("No detectada"))
          /\ Get(NewDoc, "nombre", None) =
                 (IF cedula_info # None
                  THEN Get(cedula_info[1], "nombres", Str("Sin datos"))
                  ELSE Str("Sin datos"))
          /\ Get(NewDoc, "apellido", None) =
                 (IF cedula_info # None
                  THEN Get(cedula_info[1], "apellidos", Str("Sin datos"))
                  ELSE Str("Sin datos"))]_vars

----------------------------------------------------------------------------
(* maximal runs of digits of a filename *)
RunStartsAt(s, i) == IsDigit(s[i]) /\ (i = 1 \/ ~IsDigit(s[i - 1]))

RunEnd(s, i) ==
    CHOOSE j \in i..Len(s) :
        /\ \A k \in i..j : IsDigit(s[k])
        /\ (j = Len(s) \/ ~IsDigit(s[j + 1]))

RunLength(s, i) == RunEnd(s, i) - i + 1

RunsOfExactly(s, n) == {i \in 1..Len(s) : RunStartsAt(s, i) /\ RunLength(s, i) = n}

RunsOfAtLeast(s, n) == {i \in 1..Len(s) : RunStartsAt(s, i) /\ RunLength(s, i) >= n}

First(S) == CHOOSE i \in S : \A k \in S : i <= k

(* C6 as claimed: the result is the first run of exactly 10 digits, and none *)
(* when no run has exactly 10 digits.                                        *)
C6_ExactRunOnly ==
    pc = "searched" =>
        IF RunsOfExactly(fname, 10) # {}
        THEN LET i == First(RunsOfExactly(fname, 10))
             IN  found = Some(SubSeq(fname, i, i + 9))
        ELSE found = None

(* C6 amended: the result is the first 10 digits of the first run of at      *)
(* least 10 digits, as they occur in the filename, and none exactly when     *)
(* every run of digits is shorter than 10.                                   *)
C6_FirstTenOfLongRun ==
    pc = "searched" =>
        IF RunsOfAtLeast(fname, 10) # {}
        THEN LET i == First(RunsOfAtLeast(fname, 10))
             IN  found = Some(SubSeq(fname, i, i + 9))
        ELSE found = None

(* a filename whose run has 11 digits gave that run's first 10 digits *)
C6_Witness ==
    /\ pc = "searched"
    /\ RunsOfExactly(fname, 11) # {}
    /\ found # None
    /\ Len(found[1]) = 10
    /\ found[1] = SubSeq(fname, First(RunsOfExactly(fname, 11)),
                         First(RunsOfExactly(fname, 11)) + 9)

====
